---- MODULE Spec2Model ----
(***************************************************************************)
(* Model of serial_test's code_lock.rs: the registry LOCKS (a DashMap from *)
(* key to UniqueReentrantMutex), the identity counter MUTEX_ID, the wait   *)
(* policy MAX_WAIT and the key-creation loop check_new_key, built with the *)
(* "timeout" feature.  Each thread runs check_new_key as a sequence of     *)
(* atomic steps, one per access to shared state.  Durations are whole      *)
(* seconds.                                                                *)
(***************************************************************************)
EXTENDS Integers, Sequences, FiniteSets, TLC

\* ---------------------------------------------------------------- bounds
\* seconds the clock advances per Tick
TickSecs == 30
\* number of Ticks the clock may make
MaxTicks == 2

\* serial guards one thread holds at once (re-entrant acquisitions)
MaxGuards == 2
\* parallel sections one thread is in at once
MaxParallel == 2
\* bits of the identity counter: the AtomicU32 has 32, the model keeps the
\* wrap-around of fetch_add on a narrower counter
IdBits == 2

\* ------------------------------------------------------------- constants
\* Duration::from_secs(60), the initial MAX_WAIT
DefaultWaitSecs == 60

Threads == {"t1", "t2"}
Keys == {"a", "b", "c"}
Shards == {0, 1}
NoThread == "none"
NoKey == "nokey"
NeverSet == -1

\* arguments passed to set_max_wait
WaitValues == {0, TickSecs}

VARIABLES
  LOCKS,      \* the registry: a function from the installed keys to wrappers
  MUTEX_ID,   \* the AtomicU32 identity counter
  MAX_WAIT,   \* the RwLock<Duration> wait policy, in seconds
  now,        \* the monotonic clock read by Instant::now(), in seconds
  readers,    \* per shard: the threads holding its read lock
  writer,     \* per shard: the thread holding its write lock, or NoThread
  pc,         \* per thread: position in check_new_key
  name,       \* per thread: the argument of the current call
  start,      \* per thread: the local `start`
  duration,   \* per thread: the local `duration` of the timeout block
  newid,      \* per thread: the id of the wrapper built by Default, not yet installed
  inpar,      \* per thread: the parallel sections it has started and not ended
  guards,     \* per thread: the MutexGuardWrappers it got from lock and still owns
  requested,  \* history: the keys some call of check_new_key was made for
  created,    \* history: <<key, id>> of every wrapper built, in construction order
  lastSet,    \* history: the argument of the last set_max_wait, or NeverSet
  overtaken   \* history: the threads whose call in progress has seen a set_max_wait

vars == <<LOCKS, MUTEX_ID, MAX_WAIT, now, readers, writer, pc, name, start,
          duration, newid, inpar, guards, requested, created, lastSet, overtaken>>

\* ------------------------------------------------------------ the DashMap
\* DashMap::determine_shard: keys "a" and "b" hash to the same shard
determine_shard(k) == IF k = "c" THEN 1 ELSE 0

\* RwLock::try_read on a shard succeeds unless a writer holds it
try_read_ok(s) == writer[s] = NoThread

\* try_write that ignores the holders of the shard
try_write_ok_unguarded(s) == TRUE

\* RwLock::try_write on a shard succeeds when nobody holds it
try_write_ok(s) == writer[s] = NoThread /\ readers[s] = {}

contains_key(k) == k \in DOMAIN LOCKS

\* ----------------------------------------------------------- wait policy
wait_duration == MAX_WAIT

\* set_max_wait that refuses a zero duration
set_max_wait_clamped(max_wait) ==
  /\ MAX_WAIT' = IF max_wait = 0 THEN 1 ELSE max_wait
  /\ lastSet' = max_wait
  /\ overtaken' = overtaken \cup {t \in Threads : pc[t] \notin {"idle", "done", "timedout"}}
  /\ UNCHANGED <<LOCKS, MUTEX_ID, now, readers, writer, pc, name, start,
                 duration, newid, inpar, guards, requested, created>>

set_max_wait(max_wait) ==
  /\ MAX_WAIT' = max_wait
  /\ lastSet' = max_wait
  /\ overtaken' = overtaken \cup {t \in Threads : pc[t] \notin {"idle", "done", "timedout"}}
  /\ UNCHANGED <<LOCKS, MUTEX_ID, now, readers, writer, pc, name, start,
                 duration, newid, inpar, guards, requested, created>>

\* start.elapsed()
elapsed(t) == now - start[t]

Tick ==
  /\ now < MaxTicks * TickSecs
  /\ now' = now + TickSecs
  /\ UNCHANGED <<LOCKS, MUTEX_ID, MAX_WAIT, readers, writer, pc, name, start,
                 duration, newid, inpar, guards, requested, created, lastSet, overtaken>>

\* ---------------------------------------------------------- check_new_key
\* a thread begins a call when it holds no guard and is in no parallel section
holds_nothing(t) ==
  /\ inpar[t] = 0
  /\ guards[t] = 0

\* entry: let start = Instant::now()
check_new_key(t, n) ==
  /\ pc[t] \in {"idle", "done"}
  /\ holds_nothing(t)
  /\ pc' = [pc EXCEPT ![t] = "loop"]
  /\ name' = [name EXCEPT ![t] = n]
  /\ start' = [start EXCEPT ![t] = now]
  /\ duration' = [duration EXCEPT ![t] = 0]
  /\ overtaken' = overtaken \ {t}
  /\ requested' = requested \cup {n}
  /\ UNCHANGED <<LOCKS, MUTEX_ID, MAX_WAIT, now, readers, writer, newid,
                 inpar, guards, created, lastSet>>

\* head of `loop`
loop_top(t) ==
  /\ pc[t] = "loop"
  /\ pc' = [pc EXCEPT ![t] = "try_get"]
  /\ UNCHANGED <<LOCKS, MUTEX_ID, MAX_WAIT, now, readers, writer, name, start,
                 duration, newid, inpar, guards, requested, created, lastSet, overtaken>>

\* a probe that handles Locked like Absent
try_get_locked_is_absent(t) ==
  /\ pc[t] = "try_get"
  /\ LET s == determine_shard(name[t]) IN
       IF try_read_ok(s)
         THEN /\ readers' = [readers EXCEPT ![s] = @ \cup {t}]
              /\ pc' = [pc EXCEPT ![t] = "match"]
         ELSE /\ pc' = [pc EXCEPT ![t] = "try_entry"]
              /\ UNCHANGED readers
  /\ UNCHANGED <<LOCKS, MUTEX_ID, MAX_WAIT, now, writer, name, start,
                 duration, newid, inpar, guards, requested, created, lastSet, overtaken>>

\* LOCKS.try_get(name): the shard's read lock is taken, or Locked => continue
try_get(t) ==
  /\ pc[t] = "try_get"
  /\ LET s == determine_shard(name[t]) IN
       IF try_read_ok(s)
         THEN /\ readers' = [readers EXCEPT ![s] = @ \cup {t}]
              /\ pc' = [pc EXCEPT ![t] = "match"]
         ELSE /\ pc' = [pc EXCEPT ![t] = "loop"]
              /\ UNCHANGED readers
  /\ UNCHANGED <<LOCKS, MUTEX_ID, MAX_WAIT, now, writer, name, start,
                 duration, newid, inpar, guards, requested, created, lastSet, overtaken>>

\* a match without the fast path: Present goes on to try_entry like Absent
match_try_get_no_fast_path(t) ==
  /\ pc[t] = "match"
  /\ readers' = [readers EXCEPT ![determine_shard(name[t])] = @ \ {t}]
  /\ pc' = [pc EXCEPT ![t] = "try_entry"]
  /\ UNCHANGED <<LOCKS, MUTEX_ID, MAX_WAIT, now, writer, name, start, overtaken,
                 duration, newid, inpar, guards, requested, created, lastSet>>

\* the probe's match with Absent handled like Present
match_try_get_absent_returns(t) ==
  /\ pc[t] = "match"
  /\ readers' = [readers EXCEPT ![determine_shard(name[t])] = @ \ {t}]
  /\ pc' = [pc EXCEPT ![t] = "done"]
  /\ start' = [start EXCEPT ![t] = 0]
  /\ overtaken' = overtaken \ {t}
  /\ UNCHANGED <<LOCKS, MUTEX_ID, MAX_WAIT, now, writer, name,
                 duration, newid, inpar, guards, requested, created, lastSet>>

\* the match on the probe's result: Present => return, Absent => write path;
\* the read lock is dropped in both arms
match_try_get(t) ==
  /\ pc[t] = "match"
  /\ readers' = [readers EXCEPT ![determine_shard(name[t])] = @ \ {t}]
  /\ IF contains_key(name[t])
       THEN /\ pc' = [pc EXCEPT ![t] = "done"]
            /\ start' = [start EXCEPT ![t] = 0]
            /\ overtaken' = overtaken \ {t}
       ELSE /\ pc' = [pc EXCEPT ![t] = "try_entry"]
            /\ UNCHANGED <<start, overtaken>>
  /\ UNCHANGED <<LOCKS, MUTEX_ID, MAX_WAIT, now, writer, name,
                 duration, newid, inpar, guards, requested, created, lastSet>>

\* a try_entry that never gets the shard's write lock
try_entry_never(t) ==
  /\ pc[t] = "try_entry"
  /\ pc' = [pc EXCEPT ![t] = "elapsed"]
  /\ UNCHANGED <<LOCKS, MUTEX_ID, MAX_WAIT, now, readers, writer, name, start,
                 duration, newid, inpar, guards, requested, created, lastSet,
                 overtaken>>

\* LOCKS.try_entry(name.to_string()): Some(entry) holds the shard's write lock
try_entry(t) ==
  /\ pc[t] = "try_entry"
  /\ LET s == determine_shard(name[t]) IN
       IF try_write_ok(s)
         THEN /\ writer' = [writer EXCEPT ![s] = t]
              /\ pc' = [pc EXCEPT ![t] = "or_default"]
         ELSE /\ pc' = [pc EXCEPT ![t] = "elapsed"]
              /\ UNCHANGED writer
  /\ UNCHANGED <<LOCKS, MUTEX_ID, MAX_WAIT, now, readers, name, start,
                 duration, newid, inpar, guards, requested, created, lastSet, overtaken>>

IdModulus == 2 ^ IdBits

\* fetch_add that leaves the counter alone
fetch_add_stuck(v) == v

\* MUTEX_ID.fetch_add(1, SeqCst): wrapping addition on the atomic counter
fetch_add(v) == (v + 1) % IdModulus

\* Locks::new(): nobody holds the serial lock, no parallel participant
Locks_new == [serial |-> NoThread, depth |-> 0, parallels |-> 0]

\* a wrapper built with a fixed id
UniqueReentrantMutex_fixed_id(i) == [id |-> 1, locks |-> Locks_new]

\* UniqueReentrantMutex { locks, id }
UniqueReentrantMutex(i) == [id |-> i, locks |-> Locks_new]

\* or_default that builds a wrapper whether or not the entry is occupied
or_default_always(t) ==
  /\ pc[t] = "or_default"
  /\ newid' = [newid EXCEPT ![t] = MUTEX_ID]
  /\ MUTEX_ID' = fetch_add(MUTEX_ID)
  /\ created' = Append(created, <<name[t], MUTEX_ID>>)
  /\ pc' = [pc EXCEPT ![t] = "insert"]
  /\ UNCHANGED <<writer, start>>
  /\ UNCHANGED <<LOCKS, MAX_WAIT, now, readers, name, duration, inpar, guards, requested, lastSet, overtaken>>

\* or_default that returns from an occupied entry without dropping the entry
or_default_keeps_entry(t) ==
  /\ pc[t] = "or_default"
  /\ IF contains_key(name[t])
       THEN /\ pc' = [pc EXCEPT ![t] = "done"]
            /\ start' = [start EXCEPT ![t] = 0]
            /\ overtaken' = overtaken \ {t}
            /\ UNCHANGED <<MUTEX_ID, newid, created>>
       ELSE /\ newid' = [newid EXCEPT ![t] = MUTEX_ID]
            /\ MUTEX_ID' = fetch_add(MUTEX_ID)
            /\ created' = Append(created, <<name[t], MUTEX_ID>>)
            /\ pc' = [pc EXCEPT ![t] = "insert"]
            /\ UNCHANGED <<start, overtaken>>
  /\ UNCHANGED <<LOCKS, MAX_WAIT, now, readers, writer, name, duration, inpar,
                 guards, requested, lastSet>>

\* entry.or_default(): an occupied entry is left alone and the call returns;
\* a vacant one gets UniqueReentrantMutex::default(), which takes the next id
or_default(t) ==
  /\ pc[t] = "or_default"
  /\ IF contains_key(name[t])
       THEN /\ writer' = [writer EXCEPT ![determine_shard(name[t])] = NoThread]
            /\ pc' = [pc EXCEPT ![t] = "done"]
            /\ start' = [start EXCEPT ![t] = 0]
            /\ overtaken' = overtaken \ {t}
            /\ UNCHANGED <<MUTEX_ID, newid, created>>
       ELSE /\ newid' = [newid EXCEPT ![t] = MUTEX_ID]
            /\ MUTEX_ID' = fetch_add(MUTEX_ID)
            /\ created' = Append(created, <<name[t], MUTEX_ID>>)
            /\ pc' = [pc EXCEPT ![t] = "insert"]
            /\ UNCHANGED <<writer, start, overtaken>>
  /\ UNCHANGED <<LOCKS, MAX_WAIT, now, readers, name, duration, inpar, guards, requested, lastSet>>

\* an insert followed by the timeout check
insert_checks_timeout(t) ==
  /\ pc[t] = "insert"
  /\ LOCKS' = [k \in DOMAIN LOCKS \cup {name[t]} |->
                 IF k = name[t] THEN UniqueReentrantMutex(newid[t]) ELSE LOCKS[k]]
  /\ writer' = [writer EXCEPT ![determine_shard(name[t])] = NoThread]
  /\ newid' = [newid EXCEPT ![t] = 0]
  /\ IF elapsed(t) > wait_duration
       THEN /\ pc' = [pc EXCEPT ![t] = "timedout"]
            /\ UNCHANGED <<start, overtaken>>
       ELSE /\ pc' = [pc EXCEPT ![t] = "done"]
            /\ start' = [start EXCEPT ![t] = 0]
            /\ overtaken' = overtaken \ {t}
  /\ UNCHANGED <<MUTEX_ID, MAX_WAIT, now, readers, name, duration,
                 inpar, guards, requested, created, lastSet>>

\* insert into a fresh map, losing the entries already there
insert_fresh_map(t) ==
  /\ pc[t] = "insert"
  /\ LOCKS' = [k \in {name[t]} |-> UniqueReentrantMutex(newid[t])]
  /\ writer' = [writer EXCEPT ![determine_shard(name[t])] = NoThread]
  /\ newid' = [newid EXCEPT ![t] = 0]
  /\ pc' = [pc EXCEPT ![t] = "done"]
  /\ start' = [start EXCEPT ![t] = 0]
  /\ overtaken' = overtaken \ {t}
  /\ UNCHANGED <<MUTEX_ID, MAX_WAIT, now, readers, name, duration,
                 inpar, guards, requested, created, lastSet>>

\* the vacant entry's insert of the new wrapper, the drop of the entry's
\* write lock, and the return
insert(t) ==
  /\ pc[t] = "insert"
  /\ LOCKS' = [k \in DOMAIN LOCKS \cup {name[t]} |->
                 IF k = name[t] THEN UniqueReentrantMutex(newid[t]) ELSE LOCKS[k]]
  /\ writer' = [writer EXCEPT ![determine_shard(name[t])] = NoThread]
  /\ newid' = [newid EXCEPT ![t] = 0]
  /\ pc' = [pc EXCEPT ![t] = "done"]
  /\ start' = [start EXCEPT ![t] = 0]
  /\ overtaken' = overtaken \ {t}
  /\ UNCHANGED <<MUTEX_ID, MAX_WAIT, now, readers, name, duration,
                 inpar, guards, requested, created, lastSet>>

\* let duration = start.elapsed()
read_elapsed(t) ==
  /\ pc[t] = "elapsed"
  /\ duration' = [duration EXCEPT ![t] = elapsed(t)]
  /\ pc' = [pc EXCEPT ![t] = "timeout_check"]
  /\ UNCHANGED <<LOCKS, MUTEX_ID, MAX_WAIT, now, readers, writer, name, start,
                 newid, inpar, guards, requested, created, lastSet, overtaken>>

\* timeout check that never panics
timeout_check_never(t) ==
  /\ pc[t] = "timeout_check"
  /\ pc' = [pc EXCEPT ![t] = "loop"]
  /\ duration' = [duration EXCEPT ![t] = 0]
  /\ UNCHANGED <<LOCKS, MUTEX_ID, MAX_WAIT, now, readers, writer, name, start,
                 newid, inpar, guards, requested, created, lastSet, overtaken>>

\* timeout check with >= in place of >
timeout_check_ge(t) ==
  /\ pc[t] = "timeout_check"
  /\ IF duration[t] >= wait_duration
       THEN /\ pc' = [pc EXCEPT ![t] = "timedout"]
            /\ UNCHANGED duration
       ELSE /\ pc' = [pc EXCEPT ![t] = "loop"]
            /\ duration' = [duration EXCEPT ![t] = 0]
  /\ UNCHANGED <<LOCKS, MUTEX_ID, MAX_WAIT, now, readers, writer, name, start,
                 newid, inpar, guards, requested, created, lastSet, overtaken>>

\* timeout check against the initial duration instead of the current one
timeout_check_initial(t) ==
  /\ pc[t] = "timeout_check"
  /\ IF duration[t] > DefaultWaitSecs
       THEN /\ pc' = [pc EXCEPT ![t] = "timedout"]
            /\ UNCHANGED duration
       ELSE /\ pc' = [pc EXCEPT ![t] = "loop"]
            /\ duration' = [duration EXCEPT ![t] = 0]
  /\ UNCHANGED <<LOCKS, MUTEX_ID, MAX_WAIT, now, readers, writer, name, start,
                 newid, inpar, guards, requested, created, lastSet, overtaken>>

\* if duration > wait_duration() { panic!(..) }, else around the loop again
timeout_check(t) ==
  /\ pc[t] = "timeout_check"
  /\ IF duration[t] > wait_duration
       THEN /\ pc' = [pc EXCEPT ![t] = "timedout"]
            /\ UNCHANGED duration
       ELSE /\ pc' = [pc EXCEPT ![t] = "loop"]
            /\ duration' = [duration EXCEPT ![t] = 0]
  /\ UNCHANGED <<LOCKS, MUTEX_ID, MAX_WAIT, now, readers, writer, name, start,
                 newid, inpar, guards, requested, created, lastSet, overtaken>>


\* ------------------------------------------------- UniqueReentrantMutex
\* Locks::serial() is granted to a thread when no other thread holds it
Locks_can_serial(l, t) == l.serial \in {NoThread, t}

\* Locks::serial(): the caller holds the serial lock, once more
Locks_serial(l, t) == [l EXCEPT !.serial = t, !.depth = @ + 1]

\* drop of the MutexGuardWrapper returned by serial()
Locks_release(l) ==
  [l EXCEPT !.depth = @ - 1, !.serial = IF l.depth = 1 THEN NoThread ELSE @]

\* Locks::start_parallel()
Locks_start_parallel(l) == [l EXCEPT !.parallels = @ + 1]

\* Locks::end_parallel()
Locks_end_parallel(l) == [l EXCEPT !.parallels = @ - 1]

\* a thread uses the wrapper of the key it has called check_new_key for,
\* through a reference into the key's shard
can_use(t, k) ==
  /\ pc[t] = "done"
  /\ k = name[t]
  /\ contains_key(k)
  /\ try_read_ok(determine_shard(k))

\* lock that does not wait for the serial lock to be free
lock_unguarded(t, k) ==
  /\ can_use(t, k)
  /\ guards[t] < MaxGuards
  /\ LOCKS' = [LOCKS EXCEPT ![k].locks = Locks_serial(@, t)]
  /\ guards' = [guards EXCEPT ![t] = @ + 1]
  /\ UNCHANGED <<MUTEX_ID, MAX_WAIT, now, readers, writer, pc, name, start,
                 duration, newid, inpar, requested, created, lastSet, overtaken>>

\* UniqueReentrantMutex::lock: returns, with a guard, once Locks::serial()
\* grants the serial lock
lock(t, k) ==
  /\ can_use(t, k)
  /\ Locks_can_serial(LOCKS[k].locks, t)
  /\ guards[t] < MaxGuards
  /\ LOCKS' = [LOCKS EXCEPT ![k].locks = Locks_serial(@, t)]
  /\ guards' = [guards EXCEPT ![t] = @ + 1]
  /\ UNCHANGED <<MUTEX_ID, MAX_WAIT, now, readers, writer, pc, name, start,
                 duration, newid, inpar, requested, created, lastSet, overtaken>>

\* the guard returned by lock goes out of scope
release(t, k) ==
  /\ pc[t] = "done"
  /\ k = name[t]
  /\ contains_key(k)
  /\ guards[t] > 0
  /\ LOCKS' = [LOCKS EXCEPT ![k].locks = Locks_release(@)]
  /\ guards' = [guards EXCEPT ![t] = @ - 1]
  /\ UNCHANGED <<MUTEX_ID, MAX_WAIT, now, readers, writer, pc, name, start,
                 duration, newid, inpar, requested, created, lastSet, overtaken>>

\* start_parallel on one Locks shared by all the wrappers
start_parallel_global(t, k) ==
  /\ can_use(t, k)
  /\ inpar[t] < MaxParallel
  /\ LOCKS' = [x \in DOMAIN LOCKS |->
                 [LOCKS[x] EXCEPT !.locks = Locks_start_parallel(@)]]
  /\ inpar' = [inpar EXCEPT ![t] = @ + 1]
  /\ UNCHANGED <<MUTEX_ID, MAX_WAIT, now, readers, writer, pc, name, start,
                 duration, newid, guards, requested, created, lastSet, overtaken>>

\* start_parallel that sets the count instead of adding to it
start_parallel_sets(t, k) ==
  /\ can_use(t, k)
  /\ inpar[t] < MaxParallel
  /\ LOCKS' = [LOCKS EXCEPT ![k].locks.parallels = 1]
  /\ inpar' = [inpar EXCEPT ![t] = @ + 1]
  /\ UNCHANGED <<MUTEX_ID, MAX_WAIT, now, readers, writer, pc, name, start,
                 duration, newid, guards, requested, created, lastSet, overtaken>>

\* UniqueReentrantMutex::start_parallel
start_parallel(t, k) ==
  /\ can_use(t, k)
  /\ inpar[t] < MaxParallel
  /\ LOCKS' = [LOCKS EXCEPT ![k].locks = Locks_start_parallel(@)]
  /\ inpar' = [inpar EXCEPT ![t] = @ + 1]
  /\ UNCHANGED <<MUTEX_ID, MAX_WAIT, now, readers, writer, pc, name, start,
                 duration, newid, guards, requested, created, lastSet, overtaken>>

\* UniqueReentrantMutex::end_parallel
end_parallel(t, k) ==
  /\ can_use(t, k)
  /\ inpar[t] > 0
  /\ LOCKS' = [LOCKS EXCEPT ![k].locks = Locks_end_parallel(@)]
  /\ inpar' = [inpar EXCEPT ![t] = @ - 1]
  /\ UNCHANGED <<MUTEX_ID, MAX_WAIT, now, readers, writer, pc, name, start,
                 duration, newid, guards, requested, created, lastSet, overtaken>>

\* UniqueReentrantMutex::parallel_count
parallel_count(k) == LOCKS[k].locks.parallels

\* UniqueReentrantMutex::is_locked
is_locked(k) == LOCKS[k].locks.serial # NoThread

\* ---------------------------------------------------------- specification
Init ==
  /\ LOCKS = << >>
  /\ MUTEX_ID = 1
  /\ MAX_WAIT = DefaultWaitSecs
  /\ now = 0
  /\ readers = [s \in Shards |-> {}]
  /\ writer = [s \in Shards |-> NoThread]
  /\ pc = [t \in Threads |-> "idle"]
  /\ name = [t \in Threads |-> NoKey]
  /\ start = [t \in Threads |-> 0]
  /\ duration = [t \in Threads |-> 0]
  /\ newid = [t \in Threads |-> 0]
  /\ inpar = [t \in Threads |-> 0]
  /\ guards = [t \in Threads |-> 0]
  /\ requested = {}
  /\ created = << >>
  /\ lastSet = NeverSet
  /\ overtaken = {}

Next ==
  \/ \E t \in Threads, n \in Keys : check_new_key(t, n)
  \/ \E t \in Threads : loop_top(t)
  \/ \E t \in Threads : try_get(t)
  \/ \E t \in Threads : match_try_get(t)
  \/ \E t \in Threads : try_entry(t)
  \/ \E t \in Threads : or_default(t)
  \/ \E t \in Threads : insert(t)
  \/ \E t \in Threads : read_elapsed(t)
  \/ \E t \in Threads : timeout_check(t)
  \/ \E d \in WaitValues : set_max_wait(d)
  \/ Tick

Spec == Init /\ [][Next]_vars

\* the registry with the wrappers' operations, at one instant of the clock
NextLocks ==
  \/ \E t \in Threads, n \in Keys : check_new_key(t, n)
  \/ \E t \in Threads : loop_top(t)
  \/ \E t \in Threads : try_get(t)
  \/ \E t \in Threads : match_try_get(t)
  \/ \E t \in Threads : try_entry(t)
  \/ \E t \in Threads : or_default(t)
  \/ \E t \in Threads : insert(t)
  \/ \E t \in Threads : read_elapsed(t)
  \/ \E t \in Threads : timeout_check(t)
  \/ \E d \in WaitValues : set_max_wait(d)
  \/ \E t \in Threads, k \in Keys : lock(t, k)
  \/ \E t \in Threads, k \in Keys : release(t, k)
  \/ \E t \in Threads, k \in Keys : start_parallel(t, k)
  \/ \E t \in Threads, k \in Keys : end_parallel(t, k)

SpecLocks == Init /\ [][NextLocks]_vars

\* the steps of thread t inside a call of check_new_key
InCallStep(t) ==
  \/ loop_top(t)
  \/ try_get(t)
  \/ match_try_get(t)
  \/ try_entry(t)
  \/ or_default(t)
  \/ insert(t)
  \/ read_elapsed(t)
  \/ timeout_check(t)

\* the calls of check_new_key during the first MaxTicks ticks of the clock
\* under the default maximum wait (set_max_wait is never called)
NextConverge ==
  \/ \E t \in Threads, n \in Keys : check_new_key(t, n)
  \/ \E t \in Threads : loop_top(t)
  \/ \E t \in Threads : try_get(t)
  \/ \E t \in Threads : match_try_get(t)
  \/ \E t \in Threads : try_entry(t)
  \/ \E t \in Threads : or_default(t)
  \/ \E t \in Threads : insert(t)
  \/ \E t \in Threads : read_elapsed(t)
  \/ \E t \in Threads : timeout_check(t)
  \/ Tick

\* every thread that is inside a call keeps being scheduled: none of the
\* steps of the loop blocks (try_get and try_entry are try-operations)
SpecConverge ==
  Init /\ [][NextConverge]_vars /\ \A t \in Threads : WF_vars(InCallStep(t))

TypeOK ==
  /\ DOMAIN LOCKS \subseteq Keys
  /\ MUTEX_ID \in Nat
  /\ MAX_WAIT \in Nat
  /\ now \in Nat
  /\ pc \in [Threads -> {"idle", "loop", "try_get", "match", "try_entry",
                         "or_default", "insert", "elapsed", "timeout_check",
                         "done", "timedout"}]
\* --------------------------------------------------------------- helpers
\* the ids of the wrappers ever built for key k
IdsBuiltFor(k) == {created[i][2] : i \in {j \in 1..Len(created) : created[j][1] = k}}

\* how many wrappers were ever built for key k
BuiltFor(k) == Cardinality({j \in 1..Len(created) : created[j][1] = k})

\* the ids of the wrappers in the registry
RegistryIds == {LOCKS[k].id : k \in DOMAIN LOCKS}

\* the ids of wrappers built by or_default and not yet inserted
PendingIds == {newid[t] : t \in {u \in Threads : pc[u] = "insert"}}

\* ----------------------------------------------------------------- claims
\* C1: whenever a call check_new_key(name) has returned normally, the
\* registry holds an entry for name, at the return and in every later state.
C1_Postcondition ==
  /\ [](\A t \in Threads : pc[t] = "done" => contains_key(name[t]))
  /\ [][\A t \in Threads :
          (pc[t] # "done" /\ pc'[t] = "done") => contains_key(name[t])']_vars
  /\ [][\A k \in Keys : contains_key(k) => contains_key(k)']_vars

\* a call for one key has returned and, later, a call for another key has
\* installed that one; both keys are there
C1_Witness ==
  \E t, u \in Threads :
    /\ pc[t] = "done" /\ pc[u] = "done" /\ name[t] # name[u]
    /\ LOCKS[name[t]].id < LOCKS[name[u]].id

\* C2: for every key, whatever the number and interleaving of the calls,
\* exactly one wrapper ever becomes visible; once calls for the key have
\* returned the registry holds one entry for it and its identity is the one
\* wrapper ever built for that key, so all callers see the same identity.
C2_IdempotentCreation ==
  \A k \in Keys :
    /\ Cardinality(IdsBuiltFor(k)) <= 1
    /\ contains_key(k) => IdsBuiltFor(k) = {LOCKS[k].id}
    /\ \A t \in Threads :
         (pc[t] = "done" /\ name[t] = k)
           => contains_key(k) /\ IdsBuiltFor(k) = {LOCKS[k].id}

\* both threads have returned from a call for the same key
C2_Witness ==
  \E k \in Keys : /\ \A t \in Threads : pc[t] = "done" /\ name[t] = k
                  /\ BuiltFor(k) = 1

\* C3: once a key is bound to a wrapper with some identity, every later
\* state binds that key to the wrapper with that identity: no step of
\* check_new_key, lock, start_parallel, end_parallel or set_max_wait removes
\* the entry or replaces its wrapper.
C3_EntriesPermanent ==
  [][\A k \in DOMAIN LOCKS :
       k \in DOMAIN LOCKS' /\ LOCKS'[k].id = LOCKS[k].id]_vars

\* the first wrapper built is still bound to its key after another key was
\* installed, it was locked and entered in parallel mode, and the maximum
\* wait was set
C3_Witness ==
  \E k \in DOMAIN LOCKS :
    /\ LOCKS[k].id = 1
    /\ LOCKS[k].locks.serial # NoThread
    /\ LOCKS[k].locks.parallels > 0
    /\ \E k2 \in DOMAIN LOCKS : LOCKS[k2].id = 2
    /\ lastSet # NeverSet

\* C4: for every key a wrapper is default-constructed, and an identity
\* taken from MUTEX_ID, at most once over all calls, and exactly once when a
\* call for it has returned; a caller whose try_entry finds the key already
\* installed returns without building a wrapper or taking an identity.
C4_OneAllocationPerKey ==
  /\ [](\A k \in Keys : /\ BuiltFor(k) <= 1
                        /\ contains_key(k) => BuiltFor(k) = 1
                        /\ \A t \in Threads :
                             (pc[t] = "done" /\ name[t] = k) => BuiltFor(k) = 1)
  /\ [][\A t \in Threads :
          (pc[t] = "or_default" /\ contains_key(name[t]) /\ pc'[t] # pc[t])
            => /\ pc'[t] = "done"
               /\ MUTEX_ID' = MUTEX_ID
               /\ created' = created
               /\ LOCKS' = LOCKS]_vars

\* a caller holds the entry of a key that was absent at its probe and has
\* been installed by another caller since
C4_Witness ==
  \E t \in Threads : /\ pc[t] = "or_default"
                     /\ contains_key(name[t])
                     /\ BuiltFor(name[t]) = 1

PolicyInForce == IF lastSet = NeverSet THEN DefaultWaitSecs ELSE lastSet

\* C6: a call that has not found the key Present, whether its probe was
\* contended or it went through the insert attempt, does not go on to
\* another pass of the loop once its elapsed time exceeds the maximum wait.
C6_BoundedWait ==
  [][\A t \in Threads :
       /\ (pc[t] = "try_get" /\ pc'[t] = "loop") => elapsed(t) <= MAX_WAIT
       /\ (pc[t] = "timeout_check" /\ pc'[t] = "loop") => duration[t] <= MAX_WAIT]_vars

C8_NoPrematureTimeout ==
  /\ [](\A t \in Threads : pc[t] = "timeout_check" => duration[t] <= elapsed(t))
  /\ [][\A t \in Threads :
          /\ (pc'[t] = "timedout" /\ pc[t] # "timedout")
                => /\ pc[t] = "timeout_check"
                   /\ duration[t] > MAX_WAIT
                   /\ elapsed(t) > MAX_WAIT
          /\ (pc[t] \in {"idle", "done"} /\ pc'[t] = "loop") => start'[t] = now
          /\ (pc[t] \notin {"idle", "done"} /\ pc'[t] # "done")
                => start'[t] = start[t]]_vars

\* one call has timed out on an elapsed time, measured from its own start,
\* just above a non-zero maximum wait, while a call that began later is
\* still within that maximum wait
C8_Witness ==
  \E t, u \in Threads :
    /\ pc[t] = "timedout"
    /\ duration[t] = now - start[t]
    /\ MAX_WAIT > 0 /\ duration[t] = MAX_WAIT + TickSecs
    /\ pc[u] \notin {"idle", "done", "timedout"}
    /\ start[u] > start[t] /\ elapsed(u) <= MAX_WAIT

\* C9 as stated: the maximum wait is always a positive duration, 60 seconds
\* before any set_max_wait.
C9_Original ==
  /\ MAX_WAIT > 0
  /\ lastSet = NeverSet => MAX_WAIT = DefaultWaitSecs

\* C9 amended: the maximum wait is 60 seconds before any set_max_wait and
\* is never negative; it is zero exactly when the last set_max_wait passed
\* a zero duration.
C9_WaitPolicy ==
  /\ MAX_WAIT >= 0
  /\ lastSet = NeverSet => MAX_WAIT = DefaultWaitSecs
  /\ MAX_WAIT = 0 <=> lastSet = 0

\* the maximum wait has been set to zero
C9_Witness == lastSet = 0 /\ MAX_WAIT = 0

\* C10: after set_max_wait(d) every wait_duration() read returns d until the
\* next set_max_wait, and a loop's timeout check compares its elapsed time
\* with the value in force at that check, also when set_max_wait was called
\* while the loop was in progress.
C10_EffectiveImmediately ==
  /\ [](wait_duration = PolicyInForce)
  /\ [][\A d \in WaitValues : lastSet' = d /\ lastSet # d => wait_duration' = d]_vars
  /\ [][\A t \in Threads :
          (pc[t] = "timeout_check" /\ pc'[t] # pc[t])
            => (pc'[t] = "timedout" <=> duration[t] > PolicyInForce)]_vars
  /\ [][\A t \in overtaken :
          (pc[t] = "timeout_check" /\ pc'[t] # pc[t])
            => (pc'[t] = "timedout" <=> duration[t] > lastSet)]_vars

\* a call was in progress when set_max_wait was called and has then timed
\* out after an elapsed time that is no timeout under the initial 60 seconds
C10_Witness ==
  \E t \in overtaken :
    /\ pc[t] = "timedout"
    /\ duration[t] <= DefaultWaitSecs
    /\ duration[t] > lastSet

\* the threads that hold a serial guard of key k
GuardHolders(k) == {t \in Threads : guards[t] > 0 /\ name[t] = k}

RECURSIVE SumOver(_, _)
SumOver(f, S) ==
  IF S = {} THEN 0
  ELSE LET x == CHOOSE y \in S : TRUE IN f[x] + SumOver(f, S \ {x})

\* the parallel sections on key k that were started and not ended
ParallelsOn(k) == SumOver(inpar, {t \in Threads : name[t] = k})

\* C11: no two distinct callers hold the serial guard of the same key at the
\* same time; the guards of a key all belong to the thread the wrapper
\* records as the holder of its serial lock.
C11_MutualExclusion ==
  \A k \in DOMAIN LOCKS :
    /\ Cardinality(GuardHolders(k)) <= 1
    /\ GuardHolders(k) = IF is_locked(k) THEN {LOCKS[k].locks.serial} ELSE {}
    /\ \A t \in GuardHolders(k) : guards[t] = LOCKS[k].locks.depth

\* one thread holds the serial guard of a key while the other thread, done
\* with check_new_key for the same key, is waiting in lock
C11_Witness ==
  \E t, u \in Threads :
    /\ t # u /\ pc[t] = "done" /\ pc[u] = "done"
    /\ name[t] = name[u] /\ contains_key(name[t])
    /\ guards[t] > 0 /\ guards[u] = 0
    /\ ~ENABLED lock(u, name[u])

\* C12: parallel_count() of a wrapper is the number of start_parallel() calls
\* on it not yet matched by an end_parallel(): M after M calls by concurrent
\* callers, 0 again after the M matching end_parallel() calls.
C12_ParallelCount ==
  /\ [](\A k \in DOMAIN LOCKS : parallel_count(k) = ParallelsOn(k))
  /\ [][\A k \in DOMAIN LOCKS :
          /\ ParallelsOn(k)' = ParallelsOn(k) + 1
               => parallel_count(k)' = parallel_count(k) + 1
          /\ ParallelsOn(k)' = ParallelsOn(k) - 1
               => parallel_count(k)' = parallel_count(k) - 1]_vars

\* both threads are in parallel sections of the same key, more than one
\* each, and the count is their total
C12_Witness ==
  \E k \in DOMAIN LOCKS :
    /\ \A t \in Threads : name[t] = k /\ inpar[t] = MaxParallel
    /\ parallel_count(k) = 2 * MaxParallel
\* every call made so far has returned
AllReturned == \A t \in Threads : pc[t] \in {"idle", "done"}

\* C13: when all the calls made, for several keys and by concurrent callers,
\* have returned, the registry holds exactly the keys requested, one entry
\* each; wrappers of different keys have different identities; and a wrapper
\* enters the registry unheld and with a parallel count of 0.
C13_FreshIndependentWrappers ==
  /\ [](DOMAIN LOCKS \subseteq requested)
  /\ [](AllReturned =>
          /\ DOMAIN LOCKS = requested
          /\ Cardinality(RegistryIds) = Cardinality(requested))
  /\ [](\A k1, k2 \in DOMAIN LOCKS : k1 # k2 => LOCKS[k1].id # LOCKS[k2].id)
  /\ [][\A k \in Keys :
          (~contains_key(k) /\ contains_key(k)')
            => ~is_locked(k)' /\ parallel_count(k)' = 0]_vars

\* all three keys were requested and installed, every call has returned, and
\* the wrappers in use by the two threads are no longer fresh
C13_Witness ==
  /\ AllReturned
  /\ requested = Keys /\ DOMAIN LOCKS = Keys
  /\ \E k \in Keys : is_locked(k)
  /\ \E k \in Keys : parallel_count(k) > 0
  /\ \E k \in Keys : ~is_locked(k) /\ parallel_count(k) = 0
\* thread t is inside a call of check_new_key
InCall(t) ==
  pc[t] \in {"loop", "try_get", "match", "try_entry", "or_default", "insert",
             "elapsed", "timeout_check"}

\* the call of thread t has returned normally and its key is in the registry
Returned(t) == pc[t] = "done" /\ contains_key(name[t])

\* no other thread is inside a call for a key of the shard of t's key
Uncontended(t) ==
  \A u \in Threads \ {t} :
    InCall(u) => determine_shard(name[u]) # determine_shard(name[t])

\* the elapsed time of the call of thread t is within the maximum wait
WithinWait(t) == InCall(t) => elapsed(t) <= MAX_WAIT

Issued == [i \in DOMAIN created |-> created[i][2]]

\* C15: the identity counter starts at 1, goes up by exactly one on every
\* wrapper creation and changes on no other step, and for any number of
\* creations it never decreases and never hands out an identity it has
\* already issued.
C15_IdentityAllocator ==
  /\ MUTEX_ID = 1
  /\ [][/\ Len(created') = Len(created) + 1 => MUTEX_ID' = MUTEX_ID + 1
        /\ Len(created') = Len(created) => MUTEX_ID' = MUTEX_ID
        /\ MUTEX_ID' >= MUTEX_ID]_vars
  /\ [](\A i, j \in DOMAIN Issued : i # j => Issued[i] # Issued[j])
\* the step taken is a step of thread t
Moved(t) == pc'[t] # pc[t]

\* the step leaves the registry, the identity counter and the shard locks alone
RegistryUntouched ==
  LOCKS' = LOCKS /\ MUTEX_ID' = MUTEX_ID /\ created' = created
    /\ readers' = readers /\ writer' = writer

\* C16: a probe that reports Locked sends the call back to the head of the
\* loop, whose only continuation is another probe (no insert attempt); a
\* try_entry that does not get its lock leads to the timeout check, which,
\* the maximum wait not being exceeded, sends the call back to the head of
\* the loop as well; none of these steps returns, fails, or changes the
\* registry or the identity counter.
C16_ContentionRetried ==
  [][\A t \in Threads : Moved(t) =>
       /\ (pc[t] = "try_get" /\ ~try_read_ok(determine_shard(name[t])))
            => pc'[t] = "loop" /\ RegistryUntouched
       /\ pc[t] = "loop" => pc'[t] = "try_get" /\ RegistryUntouched
       /\ (pc[t] = "try_entry" /\ ~try_write_ok(determine_shard(name[t])))
            => pc'[t] = "elapsed" /\ RegistryUntouched
       /\ pc[t] = "elapsed" => pc'[t] = "timeout_check" /\ RegistryUntouched
       /\ (pc[t] = "timeout_check" /\ duration[t] <= MAX_WAIT)
            => pc'[t] = "loop" /\ RegistryUntouched]_vars

\* a call is about to probe a shard whose write lock another call holds while
\* it installs the same key, after the clock has moved on since the call began
C16_Witness ==
  \E t, u \in Threads :
    /\ t # u /\ pc[t] = "try_get" /\ pc[u] = "insert" /\ name[u] = name[t]
    /\ writer[determine_shard(name[t])] = u
    /\ elapsed(t) > 0
\* C17: a probe that finds the key Present makes the call return on that
\* pass, without a try_entry; and the steps of a call up to and including
\* that return (the call itself, the head of the loop, the probe and its
\* match) leave the registry's keys, every wrapper's identity and lock state,
\* the identity counter and the maximum wait unchanged.
C17_ReadOnlyFastPath ==
  [][\A t \in Threads :
       (Moved(t) /\ pc[t] \in {"idle", "done", "loop", "try_get", "match"}) =>
         /\ LOCKS' = LOCKS /\ MUTEX_ID' = MUTEX_ID /\ MAX_WAIT' = MAX_WAIT
         /\ created' = created /\ writer' = writer
         /\ (pc[t] = "match" /\ contains_key(name[t])) =>
              pc'[t] = "done" /\ readers'[determine_shard(name[t])]
                                   = readers[determine_shard(name[t])] \ {t}]_vars

\* a probe has found its key Present while another thread holds the lock of
\* that key's wrapper and the maximum wait is not the initial one
C17_Witness ==
  \E t, u \in Threads :
    /\ t # u /\ pc[t] = "match" /\ contains_key(name[t])
    /\ LOCKS[name[t]].locks.serial = u
    /\ MAX_WAIT # DefaultWaitSecs
\* the step taken is an operation of thread t on the wrapper of its key:
\* lock() or the release of its guard, start_parallel() or end_parallel()
WrapperStep(t) == guards'[t] # guards[t] \/ inpar'[t] # inpar[t]

\* C18: lock(), the release of its guard, start_parallel() and end_parallel()
\* on the wrapper of key k change the lock state of that wrapper and nothing
\* else: the lock state of every other key's wrapper, the keys of the
\* registry, every wrapper's identity and the identity counter stay as they are.
C18_PerKeyIsolation ==
  [][\A t \in Threads : WrapperStep(t) =>
       /\ DOMAIN LOCKS' = DOMAIN LOCKS
       /\ \A k \in DOMAIN LOCKS :
            /\ LOCKS'[k].id = LOCKS[k].id
            /\ k # name[t] => LOCKS'[k] = LOCKS[k]
       /\ LOCKS'[name[t]].locks # LOCKS[name[t]].locks
       /\ MUTEX_ID' = MUTEX_ID /\ created' = created]_vars

\* two wrappers are in use at once: one is held and has no parallel section,
\* the other has parallel sections and is not held
C18_Witness ==
  \E k1, k2 \in DOMAIN LOCKS :
    /\ k1 # k2
    /\ is_locked(k1) /\ parallel_count(k1) = 0
    /\ ~is_locked(k2) /\ parallel_count(k2) = MaxParallel
\* C19: the elapsed time is read, and the timeout check made, only after a
\* try_entry that did not get its lock, and the call fails only in the
\* timeout check; a pass that finds the key Present, or whose try_entry gets
\* the lock, goes on to the normal return, whatever the elapsed time and the
\* maximum wait are.
C19_TimeoutOnlyAfterFailedEntry ==
  [][\A t \in Threads : Moved(t) =>
       /\ pc'[t] = "elapsed" =>
            pc[t] = "try_entry" /\ ~try_write_ok(determine_shard(name[t]))
       /\ pc'[t] = "timeout_check" => pc[t] = "elapsed"
       /\ pc'[t] = "timedout" => pc[t] = "timeout_check"
       /\ (pc[t] = "match" /\ contains_key(name[t])) => pc'[t] = "done"
       /\ (pc[t] = "try_entry" /\ try_write_ok(determine_shard(name[t])))
            => pc'[t] = "or_default"
       /\ pc[t] = "or_default" =>
            pc'[t] = IF contains_key(name[t]) THEN "done" ELSE "insert"
       /\ pc[t] = "insert" => pc'[t] = "done"]_vars

\* a call holds the entry and is about to insert, its elapsed time already
\* larger than the maximum wait, here a zero duration
C19_Witness ==
  \E t \in Threads :
    pc[t] = "insert" /\ MAX_WAIT = 0 /\ elapsed(t) > MAX_WAIT

\* C20: a call that has returned normally or has ended with the timeout holds
\* no read lock and no write lock of a shard of the registry, and neither
\* does a thread that made no call: every lock held belongs to a call in
\* progress, a read lock between the probe and its match, the write lock
\* between try_entry and the end of or_default.
C20_NoLockLeak ==
  \A s \in Shards :
    /\ \A t \in readers[s] :
         pc[t] = "match" /\ determine_shard(name[t]) = s
    /\ writer[s] # NoThread =>
         /\ pc[writer[s]] \in {"or_default", "insert"}
         /\ determine_shard(name[writer[s]]) = s
    /\ \A t \in Threads :
         pc[t] \in {"idle", "done", "timedout"} =>
           t \notin readers[s] /\ writer[s] # t

\* one call has ended with the timeout, the other has returned normally for
\* the same key, and every lock of the registry is free
C20_Witness ==
  \E t, u \in Threads :
    /\ pc[t] = "timedout" /\ pc[u] = "done" /\ name[t] = name[u]
    /\ \A s \in Shards : readers[s] = {} /\ writer[s] = NoThread
====
